---- MODULE Spec2Model ----
(***************************************************************************)
(* picseed: deterministic placeholder images derived from a seed string.   *)
(*                                                                         *)
(*   src/src/utils.ts   hashString, deterministicColor                     *)
(*   src/src/index.ts   renderSvg, renderPng, generatePlaceholder and the   *)
(*                      module-level NodeCanvas / NodeImage handles         *)
(*                                                                         *)
(* Two specifications share this module.  HashSpec draws a seed string     *)
(* and applies the pure functions of utils.ts to it.  Spec is the process  *)
(* running generatePlaceholder calls, which may overlap at the one await    *)
(* of renderPng (the dynamic import of 'canvas').                          *)
(*                                                                         *)
(* JavaScript numbers are doubles; every intermediate value of hashString  *)
(* is an integer below 2^53 and therefore exact.  TLC's integers are 32    *)
(* bits wide, so a value that may leave the int32 range is carried as two  *)
(* limbs, value = hi * 65536 + lo.                                         *)
(***************************************************************************)
EXTENDS Integers, Sequences, FiniteSets, TLC

VARIABLES
    \* ---- HashSpec: the pure functions of utils.ts
    hpc,          \* "start", or the function that was applied
    seedIn,       \* the seed string: a sequence of UTF-16 code units
    hashOut,      \* value returned by hashString(seedIn), as limbs
    colorOut,     \* value returned by deterministicColor(seedIn)
    accIn,        \* accumulator fed to one loop iteration
    charIn,       \* character code fed to one loop iteration
    stepOut,      \* accumulator after that loop iteration
    \* ---- Spec: the process
    window,       \* "undefined" (Node.js) or "object" (browser)
    NodeCanvas,   \* index.ts:8   module-level handle
    NodeImage,    \* index.ts:9   module-level handle
    nCalls,       \* number of generatePlaceholder calls started
    pc,           \* per call: "idle", "loading" (awaiting import) or "done"
    opts,         \* per call: its PlaceholderOptions
    entered,      \* per call: the renderers it entered
    loads,        \* per call: import('canvas') attempts it made
    ops,          \* per call: backend operations, in call order
    result,       \* per call: settlement of the returned promise
    sawLoaded,    \* per call: had some load already succeeded when it began
    importCount,  \* import('canvas') attempts of the whole process
    importErr,    \* per call: the error its import('canvas') threw, if any
    loadSucceeded \* some import('canvas') has resolved

hashVars == <<hpc, seedIn, hashOut, colorOut, accIn, charIn, stepOut>>
procVars == <<window, NodeCanvas, NodeImage, nCalls, pc, opts, entered,
              loads, ops, result, sawLoaded, importCount, importErr,
              loadSucceeded>>
vars == <<hpc, seedIn, hashOut, colorOut, accIn, charIn, stepOut,
          window, NodeCanvas, NodeImage, nCalls, pc, opts, entered,
          loads, ops, result, sawLoaded, importCount, importErr,
          loadSucceeded>>

-----------------------------------------------------------------------------
(* Bounds                                                                  *)

MaxLen == 5
MaxCalls == 3

-----------------------------------------------------------------------------
(* 32-bit arithmetic of hashString                                         *)

Limb == 256 * 256
HalfLimb == Limb \div 2
Int32Max == (HalfLimb - 1) * Limb + (Limb - 1)
Int32Min == (-Int32Max) - 1

Hi(x) == x \div Limb
Lo(x) == x % Limb

\* ToInt32 of the exact value hi * 65536 + lo (what `| 0` does to it).
ToInt32(hi, lo) ==
    LET l == lo % Limb
        h == (hi + (lo \div Limb)) % Limb
        hs == IF h >= HalfLimb THEN h - Limb ELSE h
    IN  hs * Limb + l

\* hash << 4 in place of hash << 5
ShiftLeft4(hash) ==
    LET u == hash % 268435456
    IN  IF u >= 134217728 THEN (u - 268435456) * 16 ELSE u * 16

\* utils.ts:13  hash << 5 on an int32: the top five bits fall off, bit 26
\* becomes the sign.
ShiftLeft5(hash) ==
    LET u == hash % 134217728
    IN  IF u >= 67108864 THEN (u - 134217728) * 32 ELSE u * 32

\* utils.ts:13  the double (hash << 5) - hash + char, exact, as limbs
ShiftSubAdd(hash, char) ==
    [hi |-> Hi(ShiftLeft5(hash)) - Hi(hash),
     lo |-> Lo(ShiftLeft5(hash)) - Lo(hash) + char]

\* utils.ts:14  hash |= 0
OrZero(n) == ToInt32(n.hi, n.lo)

\* utils.ts:12-14  one iteration of the loop
HashStep(hash, char) == OrZero(ShiftSubAdd(hash, char))

\* Math.abs confined to int32, where negating -2^31 gives -2^31 back
MathAbsInt32(x) ==
    IF x = Int32Min THEN [hi |-> -HalfLimb, lo |-> 0]
    ELSE IF x < 0 THEN [hi |-> Hi(-x), lo |-> Lo(-x)]
    ELSE [hi |-> Hi(x), lo |-> Lo(x)]

\* utils.ts:16  Math.abs on a double: |-2^31| = 2^31, outside int32
MathAbs(x) ==
    IF x >= 0 THEN [hi |-> Hi(x), lo |-> Lo(x)]
    ELSE IF Lo(x) = 0 THEN [hi |-> -Hi(x), lo |-> 0]
    ELSE [hi |-> (-Hi(x)) - 1, lo |-> Limb - Lo(x)]

RECURSIVE HashLoop(_, _, _)
\* utils.ts:10-15  the accumulator after characters i+1 .. Len(str)
HashLoop(str, i, hash) ==
    IF i >= Len(str) THEN hash
    ELSE HashLoop(str, i + 1, HashStep(hash, str[i + 1]))

\* utils.ts:9-17
hashString(str) == MathAbs(HashLoop(str, 0, 0))

\* JavaScript %, on a limb value: the sign of the result is the dividend's.
JsRem(n, m) ==
    IF n.hi >= 0 THEN ((n.hi % m) * (Limb % m) + n.lo) % m
    ELSE -((((-n.hi) % m) * (Limb % m) + (m - (n.lo % m))) % m)

DigitChars == <<"0", "1", "2", "3", "4", "5", "6", "7", "8", "9">>

RECURSIVE Digits(_)
Digits(n) ==
    IF n < 10 THEN <<DigitChars[n + 1]>>
    ELSE Digits(n \div 10) \o <<DigitChars[(n % 10) + 1]>>

\* `${n}` for an integer n: Number::toString, a sequence of characters
NumToString(n) == IF n < 0 THEN <<"-">> \o Digits(-n) ELSE Digits(n)

\* utils.ts:26 computed one too high: hue from 1 to 360
HueOffByOne(hash) == JsRem(hash, 360) + 1

\* utils.ts:26  const hue = hash % 360
Hue(hash) == JsRem(hash, 360)

saturation == 70
lightness == 50

\* utils.ts:24-30  `hsl(${hue}, ${saturation}%, ${lightness}%)`
deterministicColor(seed) ==
    <<"hsl(">> \o NumToString(Hue(hashString(seed))) \o <<", ">>
        \o NumToString(saturation) \o <<"%, ">>
        \o NumToString(lightness) \o <<"%)">>

-----------------------------------------------------------------------------
(* HashSpec: the functions of utils.ts applied to a drawn seed             *)

\* Code units: 'a', 'z', and two units whose five-character string
\* <<6208, 23039, 23039, 23039, 23039>> drives the accumulator to -2^31.
Alphabet == {97, 122, 6208, 23039}

RECURSIVE StringsOfLen(_)
StringsOfLen(n) ==
    IF n = 0 THEN {<<>>}
    ELSE {Append(s, c) : s \in StringsOfLen(n - 1), c \in Alphabet}

Strings == UNION {StringsOfLen(n) : n \in 0..MaxLen}

\* Accumulators at the edges of the int32 range and of the shift.
EdgeAccs == {0, 1, -1, Int32Max, Int32Min, 67108863, 67108864, -67108864,
             -67108865, 134217727, 134217728, -134217728, 69273666, -69273666}

EdgeChars == {0, 97, 65535}

None == <<"none">>

HashInit ==
    /\ seedIn \in Strings
    /\ hpc = "start"
    /\ hashOut = None
    /\ colorOut = None
    /\ accIn = 0
    /\ charIn = 0
    /\ stepOut = None

CallHashString ==
    /\ hpc = "start"
    /\ hpc' = "hashString"
    /\ hashOut' = hashString(seedIn)
    /\ UNCHANGED <<seedIn, colorOut, accIn, charIn, stepOut>>

CallDeterministicColor ==
    /\ hpc = "start"
    /\ hpc' = "deterministicColor"
    /\ colorOut' = deterministicColor(seedIn)
    /\ UNCHANGED <<seedIn, hashOut, accIn, charIn, stepOut>>

\* One iteration of the loop of hashString, from any int32 accumulator.
CallHashStep ==
    /\ hpc = "start"
    /\ \E acc \in EdgeAccs \cup {HashLoop(seedIn, 0, 0)}, ch \in EdgeChars :
        /\ accIn' = acc
        /\ charIn' = ch
        /\ stepOut' = <<HashStep(acc, ch)>>
    /\ hpc' = "hashStep"
    /\ UNCHANGED <<seedIn, hashOut, colorOut>>

-----------------------------------------------------------------------------
(* Values of the process                                                   *)
(*                                                                         *)
(* A JavaScript string is a sequence of pieces; '' is the empty sequence.  *)
(* An optional field is absent (undefined) or given.                       *)

Absent == [present |-> FALSE, val |-> <<>>]
Given(s) == [present |-> TRUE, val |-> s]

\* ToBoolean of an optional string: undefined and '' are falsy.
Truthy(o) == o.present /\ o.val # <<>>

\* o || d
OrElse(o, d) == IF Truthy(o) THEN o.val ELSE d

Min(a, b) == IF a < b THEN a ELSE b

\* A number with one decimal place, kept as its tenfold.
Tenths(n) == [tenths |-> n]

NoError == [code |-> "", message |-> <<>>]
NewError(msg) == [code |-> "undefined", message |-> msg]

NoValue == [mime |-> "", payload |-> <<>>]
Pending == [status |-> "pending", value |-> NoValue, error |-> NoError]
Resolved(v) == [status |-> "resolved", value |-> v, error |-> NoError]
Rejected(e) == [status |-> "rejected", value |-> NoValue, error |-> e]

NoCtx == [fillStyle |-> <<>>, font |-> <<>>, textAlign |-> "", textBaseline |-> ""]

\* One call on the graphics backend, as a mock records it: the receiver,
\* the arguments, the context's properties at the call, the returned value.
BackendOp(name, on, args, ctx, ret) ==
    [op |-> name, on |-> on, args |-> args, ctx |-> ctx, ret |-> ret]

-----------------------------------------------------------------------------
(* index.ts                                                                *)

\* index.ts:19 and 87  backgroundColor || deterministicColor(seed)
bgColor(options) == OrElse(options.backgroundColor, deterministicColor(options.seed))

\* index.ts:20 and 88  text || `${width}x${height}`
displayText(options) ==
    OrElse(options.text,
           NumToString(options.width) \o <<"x">> \o NumToString(options.height))

\* index.ts:21 and 89  textColor || '#ffffff'
fgColor(options) == OrElse(options.textColor, <<"#ffffff">>)

\* index.ts:24 and 96  Math.min(width, height) * 0.3
fontSize(options) == Tenths(3 * Min(options.width, options.height))

\* index.ts:16-42  the SVG document, by the holes of its template
renderSvg(options) ==
    [width |-> options.width,
     height |-> options.height,
     viewBox |-> <<0, 0, options.width, options.height>>,
     rectFill |-> bgColor(options),
     fontFamily |-> "sans-serif",
     fontSizeAttr |-> fontSize(options),
     textFill |-> fgColor(options),
     textNode |-> displayText(options)]

\* index.ts:74  NodeCanvas.createCanvas(width, height)
CreateCanvas(handle, options) ==
    BackendOp("createCanvas", handle, <<options.width, options.height>>, NoCtx, "canvas")

\* index.ts:77-79  document.createElement('canvas'), then its width and height
CreateElement(options) ==
    <<BackendOp("createElement", "document", <<"canvas">>, NoCtx, "canvas"),
      BackendOp("set width", "canvas", <<options.width>>, NoCtx, ""),
      BackendOp("set height", "canvas", <<options.height>>, NoCtx, "")>>

\* The PNG the backend serializes: a function of what has been drawn.
ToDataURL(drawn) == [mime |-> "image/png;base64", payload |-> drawn]

\* The text drawn before the background, with one fillStyle for both
DrawPngTextFirst(options, surface, ctxOk) ==
    LET getContext == BackendOp("getContext", "canvas", <<"2d">>, NoCtx,
                                IF ctxOk THEN "ctx" ELSE "null")
        ctx1 == [NoCtx EXCEPT !.fillStyle = fgColor(options)]
        fillText == BackendOp("fillText", "ctx",
                        <<displayText(options), Tenths(5 * options.width),
                          Tenths(5 * options.height)>>, ctx1, "")
        fillRect == BackendOp("fillRect", "ctx",
                        <<0, 0, options.width, options.height>>, ctx1, "")
        url == ToDataURL(<<fillText, fillRect>>)
        toDataURL == BackendOp("toDataURL", "canvas", <<"image/png">>, ctx1, url)
    IN  IF ~ctxOk
        THEN [ops |-> surface \o <<getContext>>,
              result |-> Rejected(NewError(
                  <<"Could not get 2D rendering context from canvas.">>))]
        ELSE [ops |-> surface \o <<getContext, fillText, fillRect, toDataURL>>,
              result |-> Resolved(url)]

\* index.ts:82-104  everything renderPng does once it holds a surface
DrawPng(options, surface, ctxOk) ==
    LET getContext == BackendOp("getContext", "canvas", <<"2d">>, NoCtx,
                                IF ctxOk THEN "ctx" ELSE "null")
        ctx1 == [NoCtx EXCEPT !.fillStyle = bgColor(options)]
        fillRect == BackendOp("fillRect", "ctx",
                        <<0, 0, options.width, options.height>>, ctx1, "")
        ctx2 == [ctx1 EXCEPT !.font = <<fontSize(options), "px sans-serif">>]
        ctx3 == [ctx2 EXCEPT !.fillStyle = fgColor(options)]
        ctx4 == [ctx3 EXCEPT !.textAlign = "center"]
        ctx5 == [ctx4 EXCEPT !.textBaseline = "middle"]
        fillText == BackendOp("fillText", "ctx",
                        <<displayText(options), Tenths(5 * options.width),
                          Tenths(5 * options.height)>>, ctx5, "")
        url == ToDataURL(<<fillRect, fillText>>)
        toDataURL == BackendOp("toDataURL", "canvas", <<"image/png">>, ctx5, url)
    IN  IF ~ctxOk
        THEN [ops |-> surface \o <<getContext>>,
              result |-> Rejected(NewError(
                  <<"Could not get 2D rendering context from canvas.">>))]
        ELSE [ops |-> surface \o <<getContext, fillRect, fillText, toDataURL>>,
              result |-> Resolved(url)]

\* The guard of the load dropped: every headless call imports
NeedsLoadAlways(handle) == TRUE

\* index.ts:58  if (!NodeCanvas)
NeedsLoad(handle) == handle = "undefined"

\* The double quote and the backtick of the message below.
DQ == "\""
BT == "BACKTICK"

\* index.ts:66-68
CanvasNotAvailable ==
    NewError(<<"Canvas API not available for PNG generation in Node.js. Please install ",
               DQ, "canvas", DQ, " or ", DQ, "@napi-rs/canvas", DQ,
               " as a peer dependency (e.g., ", BT, "npm install canvas", BT,
               "), or use ", BT, "format: ", DQ, "svg", DQ, BT, ".">>)

\* Every failure of the import reported as a missing module
CatchImportAlwaysWrap(e) == CanvasNotAvailable

\* index.ts:64-71  what the catch block throws for the error e
CatchImport(e) == IF e.code = "MODULE_NOT_FOUND" THEN CanvasNotAvailable ELSE e

\* format defaulting to 'svg'
FormatDefaultSvg(options) == OrElse(options.format, <<"svg">>)

\* index.ts:140  options.format || 'png'
Format(options) == OrElse(options.format, <<"png">>)

\* index.ts:145-148  the data URL of the percent-encoded SVG document
SvgDataUrl(svgString) ==
    [mime |-> "image/svg+xml;charset=utf-8",
     payload |-> [encodeURIComponent |-> svgString]]

\* index.ts:152
UnsupportedFormat(format) ==
    NewError(<<"Unsupported format: ">> \o format
             \o <<". Only 'png' and 'svg' are supported.">>)

-----------------------------------------------------------------------------
(* The process                                                             *)

Calls == 1..MaxCalls

\* What import('canvas') can throw.
ImportErrors ==
    {[code |-> "MODULE_NOT_FOUND", message |-> <<"Cannot find module 'canvas'">>],
     [code |-> "ERR_DLOPEN_FAILED", message |-> <<"canvas.node: cannot open shared object">>],
     [code |-> "undefined", message |-> <<"canvas is broken">>]}

Options(sizes, seeds, formats, texts, textColors, backgroundColors) ==
    {[width |-> wh[1], height |-> wh[2], seed |-> sd, format |-> f, text |-> t,
      textColor |-> tc, backgroundColor |-> bc] :
        wh \in sizes, sd \in seeds, f \in formats, t \in texts,
        tc \in textColors, bc \in backgroundColors}

Formats == {Absent, Given(<<"svg">>), Given(<<"png">>), Given(<<"jpeg">>), Given(<<>>)}
Texts == {Absent, Given(<<>>), Given(<<"XYZ">>)}

\* The requests of overlapping calls.
RaceOptions ==
    Options({<<100, 75>>}, {<<97>>}, Formats, {Absent}, {Absent}, {Absent})

\* The requests of a single call.
AllOptions ==
    Options({<<100, 75>>, <<75, 100>>, <<75, 75>>},
            {<<97>>, <<6208, 23039, 23039, 23039, 23039>>},
            Formats, Texts,
            {Absent, Given(<<>>), Given(<<"purple">>)},
            {Absent, Given(<<>>), Given(<<"green">>)})

NoOptions ==
    [width |-> 0, height |-> 0, seed |-> <<>>, format |-> Absent, text |-> Absent,
     textColor |-> Absent, backgroundColor |-> Absent]

HashIdle ==
    /\ hpc = "idle"
    /\ seedIn = <<>>
    /\ hashOut = None
    /\ colorOut = None
    /\ accIn = 0
    /\ charIn = 0
    /\ stepOut = None

ProcIdle ==
    /\ NodeCanvas = "undefined"
    /\ NodeImage = "undefined"
    /\ nCalls = 0
    /\ pc = [c \in Calls |-> "idle"]
    /\ opts = [c \in Calls |-> NoOptions]
    /\ entered = [c \in Calls |-> {}]
    /\ loads = [c \in Calls |-> 0]
    /\ ops = [c \in Calls |-> <<>>]
    /\ result = [c \in Calls |-> Pending]
    /\ sawLoaded = [c \in Calls |-> FALSE]
    /\ importCount = 0
    /\ importErr = [c \in Calls |-> NoError]
    /\ loadSucceeded = FALSE

\* index.ts:8-9 and the host: Node.js (no window) or a browser
Init ==
    /\ HashIdle
    /\ window \in {"undefined", "object"}
    /\ ProcIdle

\* Call c settles: it logs the backend operations and its promise's outcome.
Settle(c, drawn) ==
    /\ pc' = [pc EXCEPT ![c] = "done"]
    /\ ops' = [ops EXCEPT ![c] = drawn.ops]
    /\ result' = [result EXCEPT ![c] = drawn.result]

\* index.ts:139-154 down to the first await: generatePlaceholder(options),
\* through renderSvg, or through renderPng until it awaits the import or returns
Begin(options) ==
    LET c == nCalls + 1
        format == Format(options)
    IN  /\ nCalls' = c
        /\ opts' = [opts EXCEPT ![c] = options]
        /\ sawLoaded' = [sawLoaded EXCEPT ![c] = loadSucceeded]
        /\ UNCHANGED <<window, NodeCanvas, NodeImage, importErr, loadSucceeded>>
        /\ IF format = <<"svg">>
           THEN /\ entered' = [entered EXCEPT ![c] = {"renderSvg"}]
                /\ Settle(c, [ops |-> <<>>,
                              result |-> Resolved(SvgDataUrl(renderSvg(options)))])
                /\ UNCHANGED <<loads, importCount>>
           ELSE IF format = <<"png">>
           THEN /\ entered' = [entered EXCEPT ![c] = {"renderPng"}]
                /\ IF window = "undefined" /\ NeedsLoad(NodeCanvas)
                   THEN /\ pc' = [pc EXCEPT ![c] = "loading"]
                        /\ loads' = [loads EXCEPT ![c] = @ + 1]
                        /\ importCount' = importCount + 1
                        /\ UNCHANGED <<ops, result>>
                   ELSE /\ \E ctxOk \in BOOLEAN :
                            Settle(c, DrawPng(options,
                                IF window = "undefined"
                                THEN <<CreateCanvas(NodeCanvas, options)>>
                                ELSE CreateElement(options), ctxOk))
                        /\ UNCHANGED <<loads, importCount>>
           ELSE /\ Settle(c, [ops |-> <<>>,
                              result |-> Rejected(UnsupportedFormat(format))])
                /\ UNCHANGED <<entered, loads, importCount>>

\* A caller starts one more call while others may still await their import.
Call ==
    /\ nCalls < MaxCalls
    /\ \E options \in RaceOptions : Begin(options)
    /\ UNCHANGED hashVars

\* index.ts:61-63, 74-104  the import resolves; the handles are cached and
\* the call draws on a surface of the module
LoadOk ==
    \E c \in Calls :
        /\ pc[c] = "loading"
        /\ NodeCanvas' = "canvas.Canvas"
        /\ NodeImage' = "canvas.Image"
        /\ loadSucceeded' = TRUE
        /\ \E ctxOk \in BOOLEAN :
            Settle(c, DrawPng(opts[c], <<CreateCanvas(NodeCanvas', opts[c])>>, ctxOk))
        /\ UNCHANGED <<window, nCalls, opts, entered, loads, sawLoaded,
                       importCount, importErr>>
        /\ UNCHANGED hashVars

\* index.ts:64-71  the import throws e; the call rejects
LoadFail ==
    \E c \in Calls, e \in ImportErrors :
        /\ pc[c] = "loading"
        /\ importErr' = [importErr EXCEPT ![c] = e]
        /\ Settle(c, [ops |-> <<>>, result |-> Rejected(CatchImport(e))])
        /\ UNCHANGED <<window, NodeCanvas, NodeImage, nCalls, opts, entered,
                       loads, sawLoaded, importCount, loadSucceeded>>
        /\ UNCHANGED hashVars

Next == Call \/ LoadOk \/ LoadFail

Spec == Init /\ [][Next]_vars

\* One call, over every combination of options.
CallOnce ==
    /\ nCalls = 0
    /\ \E options \in AllOptions : Begin(options)
    /\ UNCHANGED hashVars

OneNext == CallOnce \/ LoadOk \/ LoadFail

OneSpec == Init /\ [][OneNext]_vars

HashStart ==
    /\ HashInit
    /\ window = "undefined"
    /\ ProcIdle

HashNext ==
    \/ CallHashString /\ UNCHANGED procVars
    \/ CallDeterministicColor /\ UNCHANGED procVars
    \/ CallHashStep /\ UNCHANGED procVars

HashSpec == HashStart /\ [][HashNext]_vars

-----------------------------------------------------------------------------
(* Properties of utils.ts, under HashSpec                                  *)

\* A limb value is well formed and not below zero.
NumNonNegative(n) == n.lo \in 0..(Limb - 1) /\ n.hi >= 0

\* C3: for every seed string s, including the empty string and a string
\* whose final accumulator is -2^31, hashString(s) >= 0.
C3_HashNonNegative ==
    hpc = "hashString" => NumNonNegative(hashOut)

\* The seed's accumulator ended at -2^31 and hashString returned 2^31.
C3_Witness ==
    /\ hpc = "hashString"
    /\ HashLoop(seedIn, 0, 0) = Int32Min
    /\ hashOut = [hi |-> HalfLimb, lo |-> 0]

RECURSIVE ParseDecimal(_)
\* The number a sequence of decimal digits denotes; -1 when it denotes none.
ParseDecimal(ds) ==
    IF ds = <<>> THEN -1
    ELSE LET d == ds[Len(ds)]
             v == IF \E k \in 0..9 : DigitChars[k + 1] = d
                  THEN CHOOSE k \in 0..9 : DigitChars[k + 1] = d
                  ELSE -1
         IN  IF v < 0 THEN -1
             ELSE IF Len(ds) = 1 THEN v
             ELSE LET rest == ParseDecimal(SubSeq(ds, 1, Len(ds) - 1))
                  IN  IF rest <= 0 THEN -1 ELSE rest * 10 + v

\* C4: for every seed string s, deterministicColor(s) is
\* "hsl(<hue>, 70%, 50%)" with hue = hashString(s) mod 360, 0 <= hue < 360,
\* saturation exactly 70 and lightness exactly 50.
C4_ColorOfSeed ==
    hpc = "deterministicColor" =>
        /\ Len(colorOut) \in 9..11
        /\ colorOut[1] = "hsl("
        /\ SubSeq(colorOut, Len(colorOut) - 6, Len(colorOut))
               = <<", ", "7", "0", "%, ", "5", "0", "%)">>
        /\ LET hue == ParseDecimal(SubSeq(colorOut, 2, Len(colorOut) - 7))
               hash == hashString(seedIn)
           IN  /\ hue \in 0..359
               /\ ((hash.hi % 360) * (Limb % 360) + hash.lo - hue) % 360 = 0

\* A seed whose accumulator is negative got a three-digit hue.
C4_Witness ==
    /\ hpc = "deterministicColor"
    /\ HashLoop(seedIn, 0, 0) < 0
    /\ Len(colorOut) = 11

\* acc * 31 + c truncated to two's-complement signed 32 bits.
RefStep(acc, c) ==
    LET lo == (acc % Limb) * 31 + c
        hi == ((acc \div Limb) * 31 + (lo \div Limb)) % Limb
    IN  (IF hi >= HalfLimb THEN hi - Limb ELSE hi) * Limb + (lo % Limb)

RECURSIVE RefFold(_)
\* The reference fold over the character codes of s, in order, from 0.
RefFold(s) ==
    IF s = <<>> THEN 0
    ELSE RefStep(RefFold(SubSeq(s, 1, Len(s) - 1)), s[Len(s)])

\* The absolute value of an int32, as limbs.
RefAbs(x) ==
    IF x = Int32Min THEN [hi |-> HalfLimb, lo |-> 0]
    ELSE LET m == IF x < 0 THEN -x ELSE x
         IN  [hi |-> m \div Limb, lo |-> m % Limb]

\* C10: hashString(s) is the absolute value of the reference fold
\* acc := wrap32(acc * 31 + c) from 0 over the character codes of s; the
\* shift-and-subtract step agrees with the reference step on every
\* accumulator tried; the empty string hashes to 0.
C10_HashIsReferenceFold ==
    /\ hpc = "hashString" =>
        /\ hashOut = RefAbs(RefFold(seedIn))
        /\ seedIn = <<>> => hashOut = [hi |-> 0, lo |-> 0]
    /\ hpc = "hashStep" => stepOut = <<RefStep(accIn, charIn)>>

\* One step from the largest accumulator wrapped around to a negative one.
C10_Witness ==
    /\ hpc = "hashStep"
    /\ accIn = Int32Max
    /\ charIn = 65535
    /\ stepOut[1] < 0

-----------------------------------------------------------------------------
(* Properties of index.ts, under Spec and OneSpec                          *)

Started(c) == c <= nCalls

\* The message the dispatcher gives for an unsupported format.
UnsupportedMessage(format) ==
    <<"Unsupported format: ">> \o format
        \o <<". Only 'png' and 'svg' are supported.">>

\* C1: a request whose format is given and is neither 'svg' nor 'png'
\* ('jpeg', the empty string) rejects with "Unsupported format: <value>.
\* Only 'png' and 'svg' are supported." having entered no renderer: no
\* module load, no surface, no drawing, no serialization.
C1_UnrecognisedFormatRejected ==
    \A c \in Calls :
        (Started(c) /\ opts[c].format.present
            /\ opts[c].format.val \notin {<<"svg">>, <<"png">>}) =>
            /\ pc[c] = "done"
            /\ result[c].status = "rejected"
            /\ result[c].error.message = UnsupportedMessage(opts[c].format.val)
            /\ entered[c] = {}
            /\ loads[c] = 0
            /\ ops[c] = <<>>

\* C2, in every state: a call enters at most one renderer: renderSvg alone
\* when format is 'svg', and then it touches neither the backend nor the
\* import; renderPng alone when format is 'png' or absent.
C2_State ==
    \A c \in Calls : Started(c) =>
        /\ Cardinality(entered[c]) <= 1
        /\ opts[c].format = Given(<<"svg">>) =>
            /\ entered[c] = {"renderSvg"}
            /\ ops[c] = <<>>
            /\ loads[c] = 0
        /\ opts[c].format \in {Absent, Given(<<"png">>)} =>
            entered[c] = {"renderPng"}

\* C2, in every step: a vector call leaves the cached handles as they were
\* and imports nothing.
C2_Step ==
    \A c \in Calls :
        (pc[c] = "idle" /\ pc'[c] # "idle" /\ opts'[c].format = Given(<<"svg">>)) =>
            /\ NodeCanvas' = NodeCanvas
            /\ NodeImage' = NodeImage
            /\ importCount' = importCount

\* C2: every generatePlaceholder call enters at most one renderer and never
\* both: renderSvg (and only it) when format is 'svg', renderPng (and only
\* it) when format is 'png' or absent; a vector call never touches the
\* graphics backend or the cached module handle.
C2_OneRenderer == []C2_State /\ [][C2_Step]_vars

\* A vector call and a default-format raster call have both settled, the
\* vector call having begun when the handle was already cached.
C2_Witness ==
    \E c, d \in Calls :
        /\ pc[c] = "done" /\ opts[c].format = Given(<<"svg">>) /\ sawLoaded[c]
        /\ pc[d] = "done" /\ opts[d].format = Absent /\ result[d].status = "resolved"

\* The label a settled, resolved call drew.
Label(c) ==
    IF "renderSvg" \in entered[c]
    THEN result[c].value.payload.encodeURIComponent.textNode
    ELSE ops[c][Len(ops[c]) - 1].args[1]

DimensionsLabel(options) ==
    NumToString(options.width) \o <<"x">> \o NumToString(options.height)

\* C5: in both renderers the drawn label is exactly the request's text
\* whenever a text string is provided, the empty string included, and is
\* "<width>x<height>" only when text is absent.
C5_LabelIsText ==
    \A c \in Calls :
        (pc[c] = "done" /\ result[c].status = "resolved") =>
            Label(c) = IF opts[c].text.present THEN opts[c].text.val
                       ELSE DimensionsLabel(opts[c])

\* C6: in the headless environment the import of 'canvas' is attempted at
\* most once in the lifetime of the process, whatever the calls, failed
\* loads and overlaps.
C6_LoadAtMostOnce ==
    window = "undefined" => importCount <= 1

\* What || resolves an optional string to.
Resolve(o, default) == IF o.present /\ o.val # <<>> THEN o.val ELSE default

\* The operations that create the surface of call c.
SurfaceOps(c) ==
    IF window = "undefined" THEN SubSeq(ops[c], 1, 1) ELSE SubSeq(ops[c], 1, 3)

SurfaceCreated(c) ==
    LET s == SurfaceOps(c)
        o == opts[c]
    IN  IF window = "undefined"
        THEN /\ s[1].op = "createCanvas"
             /\ s[1].args = <<o.width, o.height>>
        ELSE /\ s[1].op = "createElement"
             /\ s[2].op = "set width" /\ s[2].args = <<o.width>>
             /\ s[3].op = "set height" /\ s[3].args = <<o.height>>

\* C7: a successful raster call performs, once each and in this order:
\* the creation of a surface of exactly (width, height); getContext('2d');
\* fillRect(0, 0, width, height) while fillStyle is the resolved background
\* colour; fillText(label, width/2, height/2) while fillStyle is the
\* resolved text colour; toDataURL('image/png') last, whose result is
\* returned unchanged.
C7_RasterOrder ==
    \A c \in Calls :
        (pc[c] = "done" /\ result[c].status = "resolved"
            /\ "renderPng" \in entered[c]) =>
            LET o == opts[c]
                n == Len(SurfaceOps(c))
                rest == SubSeq(ops[c], n + 1, Len(ops[c]))
            IN  /\ Len(ops[c]) = n + 4
                /\ SurfaceCreated(c)
                /\ rest[1].op = "getContext" /\ rest[1].args = <<"2d">>
                /\ rest[2].op = "fillRect"
                /\ rest[2].args = <<0, 0, o.width, o.height>>
                /\ rest[2].ctx.fillStyle
                       = Resolve(o.backgroundColor, deterministicColor(o.seed))
                /\ rest[3].op = "fillText"
                /\ rest[3].args[1] = Resolve(o.text, DimensionsLabel(o))
                /\ rest[3].args[2].tenths * 2 = o.width * 10
                /\ rest[3].args[3].tenths * 2 = o.height * 10
                /\ rest[3].ctx.fillStyle = Resolve(o.textColor, <<"#ffffff">>)
                /\ rest[4].op = "toDataURL" /\ rest[4].args = <<"image/png">>
                /\ result[c].value = rest[4].ret

\* A headless raster call with both colours overridden resolved after its
\* import.
C7_Witness ==
    \E c \in Calls :
        /\ pc[c] = "done" /\ result[c].status = "resolved"
        /\ entered[c] = {"renderPng"} /\ loads[c] = 1
        /\ opts[c].backgroundColor = Given(<<"green">>)
        /\ opts[c].textColor = Given(<<"purple">>)
        /\ opts[c].width # opts[c].height

\* The message tells to install the module or to use the svg format.
InstallOrUseSvg(message) ==
    /\ \E i \in 1..Len(message) : message[i] = "npm install canvas"
    /\ \E i \in 1..Len(message) : message[i] = "svg"

\* C8: when the import of 'canvas' fails, the raster call rejects without
\* creating a surface, drawing or serializing, and assigns neither cached
\* handle, which stay unset while no load has succeeded: with the
\* install-or-use-svg error when the failure's code is MODULE_NOT_FOUND, and
\* with the original error itself, unchanged, for every other failure.
C8_LoadFailure ==
    [][\A c \in Calls :
        (pc[c] = "loading" /\ pc'[c] = "done" /\ importErr'[c] # NoError) =>
            /\ result'[c].status = "rejected"
            /\ ops'[c] = <<>>
            /\ NodeCanvas' = NodeCanvas /\ NodeImage' = NodeImage
            /\ ~loadSucceeded => NodeCanvas' = "undefined" /\ NodeImage' = "undefined"
            /\ importErr'[c].code = "MODULE_NOT_FOUND" =>
                /\ result'[c].error # importErr'[c]
                /\ InstallOrUseSvg(result'[c].error.message)
            /\ importErr'[c].code # "MODULE_NOT_FOUND" =>
                result'[c].error = importErr'[c]
      ]_vars

\* One call failed on a missing module and another on a different error,
\* and no handle is cached.
C8_Witness ==
    \E c, d \in Calls :
        /\ pc[c] = "done" /\ importErr[c].code = "MODULE_NOT_FOUND"
        /\ pc[d] = "done" /\ importErr[d].code = "ERR_DLOPEN_FAILED"
        /\ NodeCanvas = "undefined"

\* C9: once a load of 'canvas' has succeeded, the handle stays cached, and
\* every headless raster call that begins afterwards attempts no load and
\* creates its surface from the cached handle.
C9_CachedHandleReused ==
    /\ loadSucceeded => NodeCanvas = "canvas.Canvas" /\ NodeImage = "canvas.Image"
    /\ \A c \in Calls :
        (Started(c) /\ sawLoaded[c] /\ window = "undefined"
            /\ "renderPng" \in entered[c]) =>
            /\ loads[c] = 0
            /\ pc[c] = "done"
            /\ ops[c][1].op = "createCanvas"
            /\ ops[c][1].on = "canvas.Canvas"

\* A raster call that began after a successful load has settled.
C9_Witness ==
    \E c \in Calls :
        /\ sawLoaded[c] /\ window = "undefined"
        /\ entered[c] = {"renderPng"}
        /\ pc[c] = "done" /\ result[c].status = "resolved"

====
